---------------------------- MODULE Spec2Model ----------------------------
(***************************************************************************)
(* Model of src/utils/temp-directory.js: the pool of reusable temporary    *)
(* directories under TESTCAFE_TMP_DIRS_ROOT, the lock marker LockFile and  *)
(* the per-process registry USED_TEMP_DIRS with its exit hook.             *)
(*                                                                         *)
(* Several OS processes share one filesystem.  Inside a process the code   *)
(* runs on one JavaScript thread: everything between two `await`s is one   *)
(* atomic step, and every `await` is a point where another process, or     *)
(* another callback of the same process, may run.                          *)
(***************************************************************************)
EXTENDS Naturals, Sequences, FiniteSets, TLC

\* ---- bounds of the model ----
NumProcs == 2
MaxAllocs == 2
MaxOldDirs == 1

Procs == 1..NumProcs
AllocIds == 1..MaxAllocs

\* The name prefixes the callers pass to createDirectory.
Prefixes == { <<"a">>, <<"a", "b">> }

\* Directories that earlier runs may have left in the pool.
OldNames == << <<"a", "-", "0">>, <<"a", "b", "-", "0">> >>

\* The unique part of a name made by tmp.tmpNameSync, one per call.
SuffixChars == <<"1", "2", "3", "4", "5", "6", "7", "8", "9">>

\* ---- constants of the program ----
TESTCAFE_TMP_DIRS_ROOT == <<"testcafe-tmp">>
LOCKFILE_NAME == <<".testcafe-lockfile">>

\* lockFile = null
Null == <<>>

VARIABLES
    dirs,            \* the directories that exist on disk (paths)
    files,           \* the lock markers on disk: path -> the allocation whose init() created it
                     \* (0: a marker left by a process of an earlier run)
    USED_TEMP_DIRS,  \* per process: path -> allocation
    tmpDir,          \* the TempDirectory objects, and where each one's init() stands
    alive,           \* per process: it has not terminated
    nextSuffix,      \* tmp.tmpNameSync never returns the same name twice
    disposed,        \* history: the allocations dispose() has been called on
    last             \* history: the last operation that ran

vars == <<dirs, files, USED_TEMP_DIRS, tmpDir, alive, nextSuffix, disposed, last>>

\* ---- path helpers ----
Join(a, b) == a \o <<"/">> \o b

Basename(p) ==
    LET idx == {i \in 1..Len(p) : p[i] = "/"}
    IN  IF idx = {} THEN p
        ELSE LET m == CHOOSE i \in idx : \A j \in idx : j <= i
             IN  SubSeq(p, m + 1, Len(p))

Dirname(p) ==
    LET idx == {i \in 1..Len(p) : p[i] = "/"}
    IN  IF idx = {} THEN <<>>
        ELSE LET m == CHOOSE i \in idx : \A j \in idx : j <= i
             IN  SubSeq(p, 1, m - 1)

StartsWith(s, pre) == Len(pre) <= Len(s) /\ SubSeq(s, 1, Len(pre)) = pre

\* The entries directly under a directory, as fs.readdir names them.
DirEntries(root) == {Basename(d) : d \in {x \in dirs : Dirname(x) = root}}

\* Every order in which the filesystem may enumerate a set of names.
Orders(S) == {s \in [1..Cardinality(S) -> S] : \A i, j \in 1..Cardinality(S) : s[i] = s[j] => i = j}

Remove(f, k) == [x \in DOMAIN f \ {k} |-> f[x]]
Put(f, k, v) == [x \in DOMAIN f \cup {k} |-> IF x = k THEN v ELSE f[x]]

\* ---- LockFile ----
LockFilePath(dirPath) == Join(dirPath, LOCKFILE_NAME)

\* Mutant of LockFileInitOk: the file is opened with 'w', which succeeds on a file that exists.
LockFileInitOverwrites(fls, lockPath) == Dirname(lockPath) \in dirs

\* fs.openSync(path, 'wx'): creates the file unless it exists (or its directory is missing).
LockFileInitOk(fls, lockPath) == lockPath \notin DOMAIN fls /\ Dirname(lockPath) \in dirs

\* Mutant of LockFileDispose: the marker is not unlinked.
LockFileDisposeKeeps(fls, lockPath) == fls

\* LockFile.dispose: unlink, errors swallowed.
LockFileDispose(fls, lockPath) == IF lockPath \in DOMAIN fls THEN Remove(fls, lockPath) ELSE fls

\* ---- TempDirectory ----
\* namePrefix, path and lockFile are the fields of the object; pc is where its init()
\* stands; dirNames and tmpDirNames are the listing before and after the filters;
\* existingTmpDirFound is init's local.  History: newLockOk is what the init() of line 89
\* returned, error is the call that rejected, disposedAtStart are the allocations that
\* had been disposed when this one was constructed.
NewTempDirectory(p, prefix) ==
    [ proc |-> p, namePrefix |-> prefix, path |-> <<>>, lockFile |-> Null,
      pc |-> "ensureRoot", dirNames |-> <<>>, tmpDirNames |-> <<>>,
      existingTmpDirFound |-> FALSE, newLockOk |-> FALSE, error |-> "none",
      disposedAtStart |-> disposed ]

NoTempDirectory ==
    [ proc |-> 0, namePrefix |-> <<>>, path |-> <<>>, lockFile |-> Null,
      pc |-> "none", dirNames |-> <<>>, tmpDirNames |-> <<>>,
      existingTmpDirFound |-> FALSE, newLockOk |-> FALSE, error |-> "none",
      disposedAtStart |-> {} ]

\* `last` outside a release operation
NoOp == [op |-> "step", proc |-> 0, id |-> 0, n |-> 0]

Constructed == {a \in AllocIds : tmpDir[a].pc # "none"}
Running(a) == tmpDir[a].pc # "none" /\ alive[tmpDir[a].proc]

\* The pool as earlier runs may have left it: no pool root at all, or a pool root with
\* some directories, each unlocked or still carrying the marker of a killed process.
OldDirs == {Join(TESTCAFE_TMP_DIRS_ROOT, OldNames[i]) : i \in 1..MaxOldDirs}

Init ==
    /\ \/ /\ dirs = {}
          /\ files = <<>>
       \/ \E S \in SUBSET OldDirs : \E L \in SUBSET S :
             /\ dirs = {TESTCAFE_TMP_DIRS_ROOT} \cup S
             /\ files = [f \in {LockFilePath(d) : d \in L} |-> 0]
    /\ USED_TEMP_DIRS = [p \in Procs |-> <<>>]
    /\ tmpDir = [a \in AllocIds |-> NoTempDirectory]
    /\ alive = [p \in Procs |-> TRUE]
    /\ nextSuffix = 1
    /\ disposed = {}
    /\ last = NoOp

\* createDirectory: new TempDirectory(prefix), and init() up to its first await.
CreateDirectory(p, prefix) ==
    /\ alive[p]
    /\ Constructed # AllocIds
    /\ LET a == Cardinality(Constructed) + 1
       IN  tmpDir' = [tmpDir EXCEPT ![a] = NewTempDirectory(p, prefix)]
    /\ last' = NoOp
    /\ UNCHANGED <<dirs, files, USED_TEMP_DIRS, alive, nextSuffix, disposed>>

\* Mutant of EnsureRootDir: the pool root is emptied (emptyDir instead of ensureDir).
EnsureRootDirEmptied(ds) == {TESTCAFE_TMP_DIRS_ROOT}

\* Mutant of EnsureRootDir: init() does not create the pool root.
EnsureRootDirSkipped(ds) == ds

\* ensureDir(TESTCAFE_TMP_DIRS_ROOT): mkdir -p
EnsureRootDir(ds) == ds \cup {TESTCAFE_TMP_DIRS_ROOT}

\* await ensureDir(TESTCAFE_TMP_DIRS_ROOT)
EnsureRoot(a) ==
    /\ Running(a)
    /\ tmpDir[a].pc = "ensureRoot"
    /\ dirs' = EnsureRootDir(dirs)
    /\ tmpDir' = [tmpDir EXCEPT ![a].pc = "readDir"]
    /\ last' = NoOp
    /\ UNCHANGED <<files, USED_TEMP_DIRS, alive, nextSuffix, disposed>>

\* ensureDir(TESTCAFE_TMP_DIRS_ROOT) rejects: init() rejects.
EnsureRootFail(a) ==
    /\ Running(a)
    /\ tmpDir[a].pc = "ensureRoot"
    /\ tmpDir' = [tmpDir EXCEPT ![a].pc = "failed", ![a].error = "ensureRoot"]
    /\ last' = NoOp
    /\ UNCHANGED <<dirs, files, USED_TEMP_DIRS, alive, nextSuffix, disposed>>

\* readDir(TESTCAFE_TMP_DIRS_ROOT) in _getTmpDirsList: the listing is taken now, in any
\* order; it rejects when the directory does not exist, and nothing catches that.
ReadDir(a) ==
    /\ Running(a)
    /\ tmpDir[a].pc = "readDir"
    /\ IF TESTCAFE_TMP_DIRS_ROOT \in dirs
       THEN \E names \in Orders(DirEntries(TESTCAFE_TMP_DIRS_ROOT)) :
                tmpDir' = [tmpDir EXCEPT ![a].dirNames = names, ![a].pc = "filter"]
       ELSE tmpDir' = [tmpDir EXCEPT ![a].pc = "failed", ![a].error = "readDir"]
    /\ last' = NoOp
    /\ UNCHANGED <<dirs, files, USED_TEMP_DIRS, alive, nextSuffix, disposed>>

\* readDir rejects for another reason (EACCES, EMFILE, ...): _getTmpDirsList has no
\* try/catch and neither has init, so init() rejects.
ReadDirFail(a) ==
    /\ Running(a)
    /\ tmpDir[a].pc = "readDir"
    /\ tmpDir' = [tmpDir EXCEPT ![a].pc = "failed", ![a].error = "readDir"]
    /\ last' = NoOp
    /\ UNCHANGED <<dirs, files, USED_TEMP_DIRS, alive, nextSuffix, disposed>>

\* The two filters of _getTmpDirsList, applied to the names readDir returned.  The
\* registry is keyed by full paths and is looked up here with a bare name.
NotUsed(used, tmpDirName) == tmpDirName \notin DOMAIN used
HasPrefix(namePrefix, tmpDirName) == StartsWith(Basename(tmpDirName), namePrefix)

FilterTmpDirs(used, namePrefix, names) ==
    LET F1(n) == NotUsed(used, n)
        F2(n) == HasPrefix(namePrefix, n)
    IN  SelectSeq(SelectSeq(names, F1), F2)

\* _getTmpDirsList after its await: filter, return.
GetTmpDirsList(a) ==
    /\ Running(a)
    /\ tmpDir[a].pc = "filter"
    /\ tmpDir' = [tmpDir EXCEPT
                    ![a].tmpDirNames = FilterTmpDirs(USED_TEMP_DIRS[tmpDir[a].proc],
                                                     tmpDir[a].namePrefix, tmpDir[a].dirNames),
                    ![a].pc = "findFree"]
    /\ last' = NoOp
    /\ UNCHANGED <<dirs, files, USED_TEMP_DIRS, alive, nextSuffix, disposed>>

\* Mutant of FirstFree: the loop does not stop at the first success, the last free
\* candidate wins.
RECURSIVE FirstFreeLast(_, _, _, _)
FirstFreeLast(names, i, fls, faulty) ==
    IF i > Len(names) THEN 0
    ELSE LET later == FirstFreeLast(names, i + 1, fls, faulty)
         IN  IF later # 0 THEN later
             ELSE IF /\ LockFileInitOk(fls, LockFilePath(Join(TESTCAFE_TMP_DIRS_ROOT, names[i])))
                     /\ names[i] \notin faulty
                  THEN i
                  ELSE 0

\* Mutant of FirstFree: `return false` inside the loop, so only the first candidate is
\* tried.
FirstFreeFirstOnly(names, i, fls, faulty) ==
    IF i > Len(names) THEN 0
    ELSE IF /\ LockFileInitOk(fls, LockFilePath(Join(TESTCAFE_TMP_DIRS_ROOT, names[i])))
            /\ names[i] \notin faulty
         THEN i
         ELSE 0

\* The loop of _findFreeTmpDir from candidate i on: the index of the first candidate
\* whose lockFile.init() returns true, or 0.  A candidate in `faulty` is one whose
\* openSync throws for another reason than the file existing.
RECURSIVE FirstFree(_, _, _, _)
FirstFree(names, i, fls, faulty) ==
    IF i > Len(names) THEN 0
    ELSE IF /\ LockFileInitOk(fls, LockFilePath(Join(TESTCAFE_TMP_DIRS_ROOT, names[i])))
            /\ names[i] \notin faulty
         THEN i
         ELSE FirstFree(names, i + 1, fls, faulty)

\* _findFreeTmpDir: synchronous, no await inside the loop.
FindFreeTmpDir(a, faulty) ==
    /\ Running(a)
    /\ tmpDir[a].pc = "findFree"
    /\ LET names == tmpDir[a].tmpDirNames
           k == FirstFree(names, 1, files, faulty)
       IN  IF k # 0
           THEN LET tmpDirPath == Join(TESTCAFE_TMP_DIRS_ROOT, names[k])
                IN  /\ files' = Put(files, LockFilePath(tmpDirPath), a)
                    /\ tmpDir' = [tmpDir EXCEPT ![a].path = tmpDirPath,
                                                ![a].lockFile = LockFilePath(tmpDirPath),
                                                ![a].existingTmpDirFound = TRUE,
                                                ![a].pc = "afterFind"]
           ELSE /\ files' = files
                /\ tmpDir' = [tmpDir EXCEPT ![a].existingTmpDirFound = FALSE,
                                            ![a].pc = "afterFind"]
    /\ last' = NoOp
    /\ UNCHANGED <<dirs, USED_TEMP_DIRS, alive, nextSuffix, disposed>>

\* _findFreeTmpDir with an openSync that fails on some candidates for another reason
\* than the marker being there.
FindFreeTmpDirFault(a) ==
    \E faulty \in SUBSET {tmpDir[a].tmpDirNames[i] : i \in 1..Len(tmpDir[a].tmpDirNames)} :
        /\ faulty # {}
        /\ FindFreeTmpDir(a, faulty)

\* tmp.tmpNameSync({ dir, prefix: namePrefix + '-' }): a name nobody has.
TmpName(namePrefix) ==
    Join(TESTCAFE_TMP_DIRS_ROOT, namePrefix \o <<"-">> \o <<SuffixChars[nextSuffix]>>)

\* Mutant of Register: the registry is keyed by the entry name, not by the full path.
RegisterByName(used, path, a) == Put(used, Basename(path), a)

\* USED_TEMP_DIRS[this.path] = this
Register(used, path, a) == Put(used, path, a)

\* init after `await this._findFreeTmpDir(...)`: register the claimed directory, or
\* start _createNewTmpDir up to its await.
AfterFind(a) ==
    /\ Running(a)
    /\ tmpDir[a].pc = "afterFind"
    /\ IF tmpDir[a].existingTmpDirFound
       THEN /\ USED_TEMP_DIRS' = [USED_TEMP_DIRS EXCEPT
                 ![tmpDir[a].proc] = Register(@, tmpDir[a].path, a)]
            /\ tmpDir' = [tmpDir EXCEPT ![a].pc = "done"]
            /\ UNCHANGED nextSuffix
       ELSE /\ tmpDir' = [tmpDir EXCEPT ![a].path = TmpName(tmpDir[a].namePrefix),
                                        ![a].pc = "ensureDir"]
            /\ nextSuffix' = nextSuffix + 1
            /\ UNCHANGED USED_TEMP_DIRS
    /\ last' = NoOp
    /\ UNCHANGED <<dirs, files, alive, disposed>>

\* await ensureDir(this.path) in _createNewTmpDir
EnsureDir(a) ==
    /\ Running(a)
    /\ tmpDir[a].pc = "ensureDir"
    /\ dirs' = dirs \cup {tmpDir[a].path}
    /\ tmpDir' = [tmpDir EXCEPT ![a].pc = "lockNew"]
    /\ last' = NoOp
    /\ UNCHANGED <<files, USED_TEMP_DIRS, alive, nextSuffix, disposed>>

\* Mutant of EnsureDirFail: the rejection is swallowed and _createNewTmpDir goes on.
EnsureDirFailSwallowed(a) ==
    /\ Running(a)
    /\ tmpDir[a].pc = "ensureDir"
    /\ tmpDir' = [tmpDir EXCEPT ![a].pc = "lockNew", ![a].error = "ensureDir"]
    /\ last' = NoOp
    /\ UNCHANGED <<dirs, files, USED_TEMP_DIRS, alive, nextSuffix, disposed>>

\* ensureDir(this.path) rejects: _createNewTmpDir and init() reject.
EnsureDirFail(a) ==
    /\ Running(a)
    /\ tmpDir[a].pc = "ensureDir"
    /\ tmpDir' = [tmpDir EXCEPT ![a].pc = "failed", ![a].error = "ensureDir"]
    /\ last' = NoOp
    /\ UNCHANGED <<dirs, files, USED_TEMP_DIRS, alive, nextSuffix, disposed>>

\* _createNewTmpDir after its await: this.lockFile = new LockFile(this.path);
\* this.lockFile.init(), whose result is not looked at (newLockOk keeps it).
LockNewTmpDir(a, fault) ==
    /\ Running(a)
    /\ tmpDir[a].pc = "lockNew"
    /\ LET lockPath == LockFilePath(tmpDir[a].path)
           ok == LockFileInitOk(files, lockPath) /\ ~fault
       IN  /\ files' = IF ok THEN Put(files, lockPath, a) ELSE files
           /\ tmpDir' = [tmpDir EXCEPT ![a].lockFile = lockPath,
                                       ![a].newLockOk = ok,
                                       ![a].pc = "register"]
    /\ last' = NoOp
    /\ UNCHANGED <<dirs, USED_TEMP_DIRS, alive, nextSuffix, disposed>>

\* init after `await this._createNewTmpDir()`: USED_TEMP_DIRS[this.path] = this
RegisterNew(a) ==
    /\ Running(a)
    /\ tmpDir[a].pc = "register"
    /\ USED_TEMP_DIRS' = [USED_TEMP_DIRS EXCEPT
          ![tmpDir[a].proc] = Register(@, tmpDir[a].path, a)]
    /\ tmpDir' = [tmpDir EXCEPT ![a].pc = "done"]
    /\ last' = NoOp
    /\ UNCHANGED <<dirs, files, alive, nextSuffix, disposed>>

\* Mutant of DisposeOne: a failing unlink is not caught, so dispose() stops before it
\* deletes the registry entry.
DisposeOneThrowing(st, a, fault) ==
    IF tmpDir[a].path \notin DOMAIN st.used \/ fault
    THEN st
    ELSE [ used |-> Remove(st.used, tmpDir[a].path),
           fls |-> LockFileDispose(st.fls, tmpDir[a].lockFile) ]

\* TempDirectory.dispose on object a, as a function of the registry and the markers;
\* `fault`: the unlink fails although the file is there.
DisposeOne(st, a, fault) ==
    IF tmpDir[a].path \notin DOMAIN st.used
    THEN st
    ELSE [ used |-> Remove(st.used, tmpDir[a].path),
           fls |-> IF fault THEN st.fls ELSE LockFileDispose(st.fls, tmpDir[a].lockFile) ]

\* dispose() is called on an object whose init() has settled: createDirectory hands the
\* object out after `await tmpDir.init()`.
Dispose(a, fault) ==
    /\ Running(a)
    /\ tmpDir[a].pc \in {"done", "failed"}
    /\ LET p == tmpDir[a].proc
           st == DisposeOne([used |-> USED_TEMP_DIRS[p], fls |-> files], a, fault)
       IN  /\ USED_TEMP_DIRS' = [USED_TEMP_DIRS EXCEPT ![p] = st.used]
           /\ files' = st.fls
           /\ last' = [op |-> "dispose", proc |-> p, id |-> a, n |-> 0]
    /\ disposed' = disposed \cup {a}
    /\ UNCHANGED <<dirs, tmpDir, alive, nextSuffix>>

\* Mutant of DisposeEach: only the first registered allocation is disposed.
DisposeEachFirstOnly(st, todo, faulty) ==
    IF todo = {} THEN st
    ELSE LET a == CHOOSE x \in todo : \A y \in todo : x <= y
         IN  DisposeOne(st, a, a \in faulty)

\* Object.values(USED_TEMP_DIRS).forEach(tmpDir => tmpDir.dispose())
RECURSIVE DisposeEach(_, _, _)
DisposeEach(st, todo, faulty) ==
    IF todo = {} THEN st
    ELSE LET a == CHOOSE x \in todo : \A y \in todo : x <= y
         IN  DisposeEach(DisposeOne(st, a, a \in faulty), todo \ {a}, faulty)

Values(used) == {used[k] : k \in DOMAIN used}

DisposeAll(p, faulty) ==
    DisposeEach([used |-> USED_TEMP_DIRS[p], fls |-> files], Values(USED_TEMP_DIRS[p]), faulty)

DisposeDirectories(p, faulty) ==
    /\ alive[p]
    /\ LET st == DisposeAll(p, faulty)
       IN  /\ USED_TEMP_DIRS' = [USED_TEMP_DIRS EXCEPT ![p] = st.used]
           /\ files' = st.fls
    /\ disposed' = disposed \cup Values(USED_TEMP_DIRS[p])
    /\ last' = [op |-> "disposeDirectories", proc |-> p, id |-> 0,
                n |-> Cardinality(DOMAIN USED_TEMP_DIRS[p])]
    /\ UNCHANGED <<dirs, tmpDir, alive, nextSuffix>>

\* setupExitHook(TempDirectory.disposeDirectories): the process terminates, the hook
\* runs, and nothing of the process runs afterwards.
ExitHook(p, faulty) ==
    /\ alive[p]
    /\ LET st == DisposeAll(p, faulty)
       IN  /\ USED_TEMP_DIRS' = [USED_TEMP_DIRS EXCEPT ![p] = st.used]
           /\ files' = st.fls
    /\ disposed' = disposed \cup Values(USED_TEMP_DIRS[p])
    /\ alive' = [alive EXCEPT ![p] = FALSE]
    /\ last' = [op |-> "exit", proc |-> p, id |-> 0,
                n |-> Cardinality(DOMAIN USED_TEMP_DIRS[p])]
    /\ UNCHANGED <<dirs, tmpDir, nextSuffix>>

\* One step of an init() in flight, on a filesystem whose calls do not fail.
InitStep(a) ==
    \/ EnsureRoot(a)
    \/ ReadDir(a)
    \/ GetTmpDirsList(a)
    \/ FindFreeTmpDir(a, {})
    \/ AfterFind(a)
    \/ EnsureDir(a)
    \/ LockNewTmpDir(a, FALSE)
    \/ RegisterNew(a)

Next ==
    \/ \E p \in Procs, prefix \in Prefixes : CreateDirectory(p, prefix)
    \/ \E a \in AllocIds : InitStep(a)
    \/ \E a \in AllocIds : Dispose(a, FALSE)
    \/ \E p \in Procs : DisposeDirectories(p, {})
    \/ \E p \in Procs : ExitHook(p, {})

Spec == Init /\ [][Next]_vars

\* The steps in which a filesystem call fails.
FaultNext ==
    \/ \E a \in AllocIds : EnsureRootFail(a)
    \/ \E a \in AllocIds : ReadDirFail(a)
    \/ \E a \in AllocIds : FindFreeTmpDirFault(a)
    \/ \E a \in AllocIds : EnsureDirFail(a)
    \/ \E a \in AllocIds : LockNewTmpDir(a, TRUE)
    \/ \E a \in AllocIds : Dispose(a, TRUE)
    \/ \E p \in Procs : \E faulty \in SUBSET Values(USED_TEMP_DIRS[p]) :
          faulty # {} /\ DisposeDirectories(p, faulty)
    \/ \E p \in Procs : \E faulty \in SUBSET Values(USED_TEMP_DIRS[p]) :
          faulty # {} /\ ExitHook(p, faulty)

FaultSpec == Init /\ [][Next \/ FaultNext]_vars

\* Every init() in flight of a running process gets its next step.
LiveSpec == Spec /\ \A a \in AllocIds : WF_vars(InitStep(a))

\* ---------------------------------------------------------------------------
\* Properties
\* ---------------------------------------------------------------------------

\* The process whose init() created the marker f (0: none of the running ones).
MarkerProc(f) == IF files[f] = 0 THEN 0 ELSE tmpDir[files[f]].proc

\* Allocation a was returned by a completed init() and has not been released since.
Held(a) == tmpDir[a].pc = "done" /\ a \notin disposed /\ alive[tmpDir[a].proc]

\* C1: mutual exclusion: no directory is held by allocations of two different
\* processes at the same time.
C1_MutualExclusion ==
    \A a, b \in AllocIds :
        (Held(a) /\ Held(b) /\ tmpDir[a].proc # tmpDir[b].proc)
            => tmpDir[a].path # tmpDir[b].path

\* C2: when init() completes, its path is a directory directly under the pool root and
\* holds a lock marker created by this very init().
C2_CompletedOwnsMarker ==
    [][\A a \in AllocIds :
          (tmpDir[a].pc # "done" /\ tmpDir'[a].pc = "done")
              => /\ tmpDir'[a].path \in dirs'
                 /\ Dirname(tmpDir'[a].path) = TESTCAFE_TMP_DIRS_ROOT
                 /\ LockFilePath(tmpDir'[a].path) \in DOMAIN files'
                 /\ files'[LockFilePath(tmpDir'[a].path)] = a]_vars

\* C3: dispose() on an allocation that dispose() has already run on, or whose init()
\* failed, changes neither the registry nor any lock marker.
C3_DisposeIdempotent ==
    [][\A a \in AllocIds :
          (last'.op = "dispose" /\ last'.id = a /\ (a \in disposed \/ tmpDir[a].pc = "failed"))
              => (USED_TEMP_DIRS' = USED_TEMP_DIRS /\ files' = files)]_vars

\* C4: once a process has terminated through the exit hook, its registry is empty and
\* no lock marker that it created is left on disk.
C4_ExitReleasesEverything ==
    \A p \in Procs :
        ~alive[p] => /\ USED_TEMP_DIRS[p] = <<>>
                     /\ \A f \in DOMAIN files : MarkerProc(f) # p

\* C5: disposeDirectories (called directly or by the exit hook) empties the registry of
\* its process and deletes the lock marker of every allocation that was registered,
\* and leaves the directories as they are.
C5_ReleaseAll ==
    [][\A p \in Procs :
          (last'.op \in {"disposeDirectories", "exit"} /\ last'.proc = p)
              => /\ USED_TEMP_DIRS'[p] = <<>>
                 /\ \A v \in Values(USED_TEMP_DIRS[p]) : tmpDir[v].lockFile \notin DOMAIN files'
                 /\ \A k \in DOMAIN USED_TEMP_DIRS[p] : LockFilePath(k) \notin DOMAIN files'
                 /\ dirs' = dirs]_vars

\* disposeDirectories has just released two registered allocations, some released by a
\* dispose() of their own before, and their directories are still there.
C5_Witness ==
    /\ last.op = "disposeDirectories"
    /\ last.n >= 2
    /\ USED_TEMP_DIRS[last.proc] = <<>>
    /\ \E a, b \in AllocIds :
          /\ a # b
          /\ tmpDir[a].proc = last.proc /\ tmpDir[b].proc = last.proc
          /\ tmpDir[a].pc = "done" /\ tmpDir[b].pc = "done"
          /\ tmpDir[a].path # tmpDir[b].path
          /\ tmpDir[a].path \in dirs /\ tmpDir[b].path \in dirs
          /\ tmpDir[a].lockFile \notin DOMAIN files
          /\ tmpDir[b].lockFile \notin DOMAIN files

\* C6: a path is a key of a process's registry exactly when its lock marker is on disk
\* and was created by that process.
C6_RegistryIffLockHeld ==
    \A p \in Procs :
        alive[p] =>
            \A d \in dirs \cup DOMAIN USED_TEMP_DIRS[p] :
                (d \in DOMAIN USED_TEMP_DIRS[p])
                    <=> (LockFilePath(d) \in DOMAIN files /\ MarkerProc(LockFilePath(d)) = p)

\* The names of a listing that start with the prefix, and those of them that carry no
\* lock marker.
Matching(a) ==
    {tmpDir[a].dirNames[i] : i \in {j \in 1..Len(tmpDir[a].dirNames) :
                                        StartsWith(tmpDir[a].dirNames[j], tmpDir[a].namePrefix)}}
Unlocked(names) ==
    {n \in names : LockFilePath(Join(TESTCAFE_TMP_DIRS_ROOT, n)) \notin DOMAIN files}

\* C7: reuse before create: when _findFreeTmpDir runs and some listed name with the
\* prefix is unlocked, it claims one of these (its marker is created, no directory is);
\* it reports none found only if every listed name with the prefix is locked; and only
\* an init() that found none creates a directory.
C7_ReuseBeforeCreate ==
    /\ [][\A a \in AllocIds :
            (tmpDir[a].pc = "findFree" /\ tmpDir'[a].pc = "afterFind")
                => IF Unlocked(Matching(a)) # {}
                   THEN /\ tmpDir'[a].existingTmpDirFound
                        /\ \E n \in Unlocked(Matching(a)) :
                              tmpDir'[a].path = Join(TESTCAFE_TMP_DIRS_ROOT, n)
                        /\ LockFilePath(tmpDir'[a].path) \in DOMAIN files'
                        /\ files'[LockFilePath(tmpDir'[a].path)] = a
                        /\ dirs' = dirs
                   ELSE /\ ~tmpDir'[a].existingTmpDirFound
                        /\ files' = files]_vars
    /\ [][\A a \in AllocIds :
            (tmpDir[a].path \notin dirs /\ tmpDir'[a].path \in dirs')
                => ~tmpDir[a].existingTmpDirFound]_vars
    /\ [](\A a \in AllocIds :
            tmpDir[a].existingTmpDirFound => tmpDir[a].pc \in {"afterFind", "done"})

\* An init() listed two candidates with its prefix, found the first one locked and
\* claimed the second one, and has completed without creating a directory.
C7_Witness ==
    \E a \in AllocIds :
        /\ tmpDir[a].pc = "done"
        /\ tmpDir[a].existingTmpDirFound
        /\ Len(tmpDir[a].tmpDirNames) = 2
        /\ tmpDir[a].path = Join(TESTCAFE_TMP_DIRS_ROOT, tmpDir[a].tmpDirNames[2])
        /\ files[tmpDir[a].lockFile] = a

\* C8: init() never returns a directory whose lock marker was already there when it
\* tried to claim it; when it found no free candidate, the directory it returns is one
\* it created under the pool root, named prefix + '-' + a suffix.
C8_LockedNeverReturned ==
    \A a \in AllocIds :
        tmpDir[a].pc = "done" =>
            /\ tmpDir[a].existingTmpDirFound \/ tmpDir[a].newLockOk
            /\ ~tmpDir[a].existingTmpDirFound =>
                  /\ tmpDir[a].path \in dirs
                  /\ Dirname(tmpDir[a].path) = TESTCAFE_TMP_DIRS_ROOT
                  /\ StartsWith(Basename(tmpDir[a].path), tmpDir[a].namePrefix \o <<"-">>)

\* An init() has completed with a directory that is on disk and registered, or its
\* process has terminated.
Settled(a) ==
    IF tmpDir[a].pc = "none" THEN FALSE
    ELSE \/ ~alive[tmpDir[a].proc]
         \/ /\ tmpDir[a].pc = "done"
            /\ tmpDir[a].path \in dirs
            /\ Dirname(tmpDir[a].path) = TESTCAFE_TMP_DIRS_ROOT

C10_ScanErrorsAbsorbed ==
    \A a \in AllocIds : ~(tmpDir[a].pc = "failed" /\ tmpDir[a].error = "readDir")

\* The lock markers on disk that the init() of allocation a created.
MarkersOf(a) == {f \in DOMAIN files : files[f] = a}

\* C11: an init() whose ensureDir of the pool root or of its brand-new directory
\* rejected has failed, is not in the registry of its process, and has left no lock
\* marker on disk.
C11_FatalFailure ==
    \A a \in AllocIds :
        tmpDir[a].error \in {"ensureRoot", "ensureDir"} =>
            /\ tmpDir[a].pc = "failed"
            /\ a \notin Values(USED_TEMP_DIRS[tmpDir[a].proc])
            /\ tmpDir[a].path \notin DOMAIN USED_TEMP_DIRS[tmpDir[a].proc]
            /\ MarkersOf(a) = {}

\* The creation of a brand-new directory failed in a process that holds another
\* allocation: the init() has failed, and the registry still holds only the other one.
C11_Witness ==
    \E a, b \in AllocIds :
        /\ a # b
        /\ tmpDir[a].proc = tmpDir[b].proc
        /\ tmpDir[a].pc = "failed" /\ tmpDir[a].error = "ensureDir"
        /\ tmpDir[a].path # <<>> /\ tmpDir[a].path \notin dirs
        /\ tmpDir[b].pc = "done"
        /\ Values(USED_TEMP_DIRS[tmpDir[b].proc]) = {b}

\* C12: release never fails.  A dispose() of a registered allocation removes its registry
\* entry whether or not the unlink works, touches no marker but its own, and changes
\* nothing on disk when the marker is already gone; disposeDirectories empties the
\* registry although some unlinks fail, and no directory is touched.
C12_ReleaseNeverFails ==
    [][/\ \A a \in AllocIds :
            (last'.op = "dispose" /\ last'.id = a) =>
                /\ tmpDir[a].path \notin DOMAIN USED_TEMP_DIRS'[tmpDir[a].proc]
                /\ \A f \in DOMAIN files : f # tmpDir[a].lockFile =>
                      (f \in DOMAIN files' /\ files'[f] = files[f])
                /\ DOMAIN files' \subseteq DOMAIN files
                /\ tmpDir[a].lockFile \notin DOMAIN files => files' = files
                /\ dirs' = dirs
       /\ \A p \in Procs :
            (last'.op \in {"disposeDirectories", "exit"} /\ last'.proc = p) =>
                /\ USED_TEMP_DIRS'[p] = <<>>
                /\ DOMAIN files' \subseteq DOMAIN files
                /\ \A f \in DOMAIN files :
                      f \notin {tmpDir[v].lockFile : v \in Values(USED_TEMP_DIRS[p])} =>
                          (f \in DOMAIN files' /\ files'[f] = files[f])
                /\ dirs' = dirs]_vars

\* disposeDirectories has run over two registered allocations: the unlink of one marker
\* failed (it is still on disk), the other marker is gone, and the registry is empty.
C12_Witness ==
    /\ last.op = "disposeDirectories"
    /\ last.n >= 2
    /\ USED_TEMP_DIRS[last.proc] = <<>>
    /\ \E a, b \in AllocIds :
          /\ a # b
          /\ tmpDir[a].proc = last.proc /\ tmpDir[b].proc = last.proc
          /\ tmpDir[a].pc = "done" /\ tmpDir[b].pc = "done"
          /\ tmpDir[a].lockFile \in DOMAIN files /\ files[tmpDir[a].lockFile] = a
          /\ tmpDir[b].lockFile \notin DOMAIN files

\* C13: release makes a directory reusable.  A dispose() of a registered allocation
\* leaves its directory on disk without its lock marker; and when one process, alone,
\* allocates, disposes and allocates again with the same prefix, the second init()
\* claims a directory that exists already and creates none.
C13_ReleaseThenReuse ==
    /\ [][\A a \in AllocIds :
            (/\ last'.op = "dispose" /\ last'.id = a
             /\ tmpDir[a].path \in DOMAIN USED_TEMP_DIRS[tmpDir[a].proc])
                => /\ LockFilePath(tmpDir[a].path) \notin DOMAIN files'
                   /\ tmpDir[a].path \in dirs']_vars
    /\ [](\A a, b \in AllocIds :
            (/\ Constructed = {a, b} /\ a # b
             /\ tmpDir[a].proc = tmpDir[b].proc
             /\ tmpDir[a].namePrefix = tmpDir[b].namePrefix
             /\ tmpDir[a].pc = "done"
             /\ a \in tmpDir[b].disposedAtStart)
                => /\ tmpDir[b].pc \notin {"ensureDir", "lockNew", "register", "failed"}
                   /\ tmpDir[b].pc = "done" =>
                         /\ tmpDir[b].existingTmpDirFound
                         /\ tmpDir[b].path \in dirs
                         /\ Cardinality(dirs) = Cardinality(dirs \ {tmpDir[b].path}) + 1)

\* A process has allocated, disposed and allocated again with the same prefix: the
\* second allocation holds the directory of the first one, with a marker of its own.
C13_Witness ==
    \E a, b \in AllocIds :
        /\ a # b
        /\ tmpDir[a].proc = tmpDir[b].proc
        /\ tmpDir[a].namePrefix = tmpDir[b].namePrefix
        /\ a \in tmpDir[b].disposedAtStart
        /\ tmpDir[a].pc = "done" /\ tmpDir[b].pc = "done"
        /\ ~tmpDir[a].existingTmpDirFound
        /\ tmpDir[b].existingTmpDirFound
        /\ tmpDir[b].path = tmpDir[a].path
        /\ tmpDir[b].lockFile \in DOMAIN files /\ files[tmpDir[b].lockFile] = b

\* Two allocations of one process that were handed out and not disposed since.
LiveInSameProcess(a, b) ==
    a # b /\ Held(a) /\ Held(b) /\ tmpDir[a].proc = tmpDir[b].proc

\* C14: the candidates that _getTmpDirsList returns exclude every directory whose full
\* path is a key of the registry of the process; init() never registers a path that
\* is registered in its process already; and no two live allocations of one process
\* have the same path.
C14_OwnDirectoriesExcluded ==
    /\ [][\A a \in AllocIds :
            (tmpDir[a].pc = "filter" /\ tmpDir'[a].pc = "findFree")
                => \A i \in 1..Len(tmpDir'[a].tmpDirNames) :
                      Join(TESTCAFE_TMP_DIRS_ROOT, tmpDir'[a].tmpDirNames[i])
                          \notin DOMAIN USED_TEMP_DIRS[tmpDir[a].proc]]_vars
    /\ [][\A a \in AllocIds :
            (tmpDir[a].pc # "done" /\ tmpDir'[a].pc = "done")
                => tmpDir'[a].path \notin DOMAIN USED_TEMP_DIRS[tmpDir[a].proc]]_vars
    /\ [](\A a, b \in AllocIds :
            LiveInSameProcess(a, b) => tmpDir[a].path # tmpDir[b].path)

\* C15: no process deletes or changes a lock marker created by another process: a
\* marker that disappears or changes creator in a step was created by the process
\* that took the step.
C15_ForeignMarkersUntouched ==
    [][\A f \in DOMAIN files :
          (f \notin DOMAIN files' \/ files'[f] # files[f])
              => MarkerProc(f) = last'.proc]_vars

\* C19: an allocation stays owned until it is released itself: while allocation b is
\* held (returned by init(), not disposed, its process alive and disposeDirectories
\* not called since), b's path is a key of the registry of its process mapped to b,
\* and b's lock marker is on disk.
C19_OwnedUntilReleased ==
    \A b \in AllocIds :
        Held(b) =>
            /\ tmpDir[b].path \in DOMAIN USED_TEMP_DIRS[tmpDir[b].proc]
            /\ USED_TEMP_DIRS[tmpDir[b].proc][tmpDir[b].path] = b
            /\ tmpDir[b].lockFile \in DOMAIN files

\* The candidates of allocation a, as full marker paths.
CandidateLocks(a) ==
    {LockFilePath(Join(TESTCAFE_TMP_DIRS_ROOT, tmpDir[a].tmpDirNames[i])) :
        i \in 1..Len(tmpDir[a].tmpDirNames)}

\* C16: lock acquire is an atomic create-if-absent.  An acquire that returns true
\* found the marker absent and leaves it present, as this call's marker; an acquire
\* that returns false leaves the markers as they were; with no failing openSync the
\* acquire returns true exactly when the marker was absent; and a marker that is
\* there is never taken over, so that between two releases at most one acquire on
\* a directory returns true.
C16_AtomicCreateIfAbsent ==
    /\ [][\A a \in AllocIds :
            (tmpDir[a].pc = "lockNew" /\ tmpDir'[a].pc = "register")
                => LET lockPath == LockFilePath(tmpDir[a].path)
                   IN  /\ tmpDir'[a].newLockOk
                            => /\ lockPath \notin DOMAIN files
                               /\ files' = Put(files, lockPath, a)
                       /\ ~tmpDir'[a].newLockOk => files' = files
                       /\ LockNewTmpDir(a, FALSE)
                            => (tmpDir'[a].newLockOk <=> lockPath \notin DOMAIN files)]_vars
    /\ [][\A a \in AllocIds :
            (tmpDir[a].pc = "findFree" /\ tmpDir'[a].pc = "afterFind")
                => /\ tmpDir'[a].existingTmpDirFound
                        => /\ tmpDir'[a].lockFile \in CandidateLocks(a) \ DOMAIN files
                           /\ files' = Put(files, tmpDir'[a].lockFile, a)
                   /\ ~tmpDir'[a].existingTmpDirFound => files' = files
                   /\ FindFreeTmpDir(a, {})
                        => (tmpDir'[a].existingTmpDirFound
                               <=> CandidateLocks(a) \ DOMAIN files # {})]_vars
    /\ [][\A f \in DOMAIN files \cap DOMAIN files' : files'[f] = files[f]]_vars

\* An acquire on a new directory returned false because another allocation's acquire
\* on the same directory had returned true, and that marker is still the other's.
C16_Witness ==
    \E a, b \in AllocIds :
        /\ a # b
        /\ tmpDir[a].pc \in {"register", "done"}
        /\ ~tmpDir[a].existingTmpDirFound
        /\ ~tmpDir[a].newLockOk
        /\ tmpDir[b].existingTmpDirFound
        /\ tmpDir[b].lockFile = tmpDir[a].lockFile
        /\ tmpDir[a].lockFile \in DOMAIN files
        /\ files[tmpDir[a].lockFile] = b

\* C17: first success wins.  When _findFreeTmpDir claims a directory it is an entry
\* of the listing, the one marker the step adds is that directory's, and with no
\* failing openSync every entry listed before it either lacks the prefix or was
\* locked; and the markers an allocation has created are never on another
\* directory than its own.
C17_FirstSuccessWins ==
    /\ [][\A a \in AllocIds :
            (/\ tmpDir[a].pc = "findFree" /\ tmpDir'[a].pc = "afterFind"
             /\ tmpDir'[a].existingTmpDirFound)
                => \E m \in 1..Len(tmpDir[a].dirNames) :
                      /\ tmpDir'[a].path = Join(TESTCAFE_TMP_DIRS_ROOT, tmpDir[a].dirNames[m])
                      /\ HasPrefix(tmpDir[a].namePrefix, tmpDir[a].dirNames[m])
                      /\ files' = Put(files, LockFilePath(tmpDir'[a].path), a)
                      /\ FindFreeTmpDir(a, {})
                            => \A j \in 1..(m - 1) :
                                  \/ ~HasPrefix(tmpDir[a].namePrefix, tmpDir[a].dirNames[j])
                                  \/ LockFilePath(Join(TESTCAFE_TMP_DIRS_ROOT, tmpDir[a].dirNames[j]))
                                         \in DOMAIN files]_vars
    /\ [](\A a \in AllocIds : MarkersOf(a) \subseteq {LockFilePath(tmpDir[a].path)})

\* An init() listed two candidates that were both free, claimed the first one and
\* has completed; the second one is still free.
C17_Witness ==
    \E a \in AllocIds :
        /\ tmpDir[a].pc = "done"
        /\ tmpDir[a].existingTmpDirFound
        /\ Len(tmpDir[a].tmpDirNames) = 2
        /\ tmpDir[a].path = Join(TESTCAFE_TMP_DIRS_ROOT, tmpDir[a].tmpDirNames[1])
        /\ MarkersOf(a) = {tmpDir[a].lockFile}
        /\ LockFilePath(Join(TESTCAFE_TMP_DIRS_ROOT, tmpDir[a].tmpDirNames[2])) \notin DOMAIN files

\* C18: directories are never deleted: every step keeps the pool root and every
\* directory under it, and dispose(), disposeDirectories() and the exit hook leave
\* the directories exactly as they were and add no marker.
C18_DirectoriesNeverDeleted ==
    [][/\ dirs \subseteq dirs'
       /\ last'.op \in {"dispose", "disposeDirectories", "exit"}
            => /\ dirs' = dirs
               /\ DOMAIN files' \subseteq DOMAIN files]_vars

\* An allocation was released: its directory is still on disk, its marker is gone.
C18_Witness ==
    \E a \in AllocIds :
        /\ last.op \in {"dispose", "disposeDirectories", "exit"}
        /\ a \in disposed
        /\ tmpDir[a].pc = "done"
        /\ tmpDir[a].path \in dirs
        /\ tmpDir[a].lockFile \notin DOMAIN files
        /\ TESTCAFE_TMP_DIRS_ROOT \in dirs

\* C20: registry well-formedness: every entry of the registry of a process, with key
\* k, maps to an allocation of that process whose path is k and is not empty and
\* whose lockFile is set and is the marker of k; and a dispose() that gets past its
\* registry test has a lockFile to call.
C20_RegistryWellFormed ==
    /\ [](\A p \in Procs : \A k \in DOMAIN USED_TEMP_DIRS[p] :
            LET v == USED_TEMP_DIRS[p][k]
            IN  /\ v \in Constructed
                /\ tmpDir[v].proc = p
                /\ tmpDir[v].path = k
                /\ k # <<>>
                /\ tmpDir[v].lockFile # Null
                /\ tmpDir[v].lockFile = LockFilePath(k))
    /\ [][\A a \in AllocIds :
            (/\ last'.op = "dispose" /\ last'.id = a
             /\ tmpDir[a].path \in DOMAIN USED_TEMP_DIRS[tmpDir[a].proc])
                => tmpDir[a].lockFile # Null]_vars

\* The registry of one process holds two entries: a directory claimed from the
\* listing and a directory that was created.
C20_Witness ==
    \E p \in Procs : \E a, b \in AllocIds :
        /\ tmpDir[a].path \in DOMAIN USED_TEMP_DIRS[p]
        /\ tmpDir[b].path \in DOMAIN USED_TEMP_DIRS[p]
        /\ USED_TEMP_DIRS[p][tmpDir[a].path] = a
        /\ USED_TEMP_DIRS[p][tmpDir[b].path] = b
        /\ tmpDir[a].existingTmpDirFound
        /\ ~tmpDir[b].existingTmpDirFound
        /\ tmpDir[a].path # tmpDir[b].path

=============================================================================
